---- MODULE Spec2Model ----
(***************************************************************************)
(* Order and lesson routes of the MindForge backend (src/server.js and the *)
(* later revision of the same file that adds the /lessons routes).         *)
(*                                                                         *)
(* The document store is modelled as two collections, lessons and orders.  *)
(* Every handler is an async function: between two awaited store calls     *)
(* other requests may run, so each action below is the code of one handler *)
(* up to and including one store call.  A handler's response is put in     *)
(* outbox; Deliver hands it to the client before the next step of any      *)
(* handler.  The clients of one run                                        *)
(* submit the same order body, ordersPayload, any number of times.         *)
(***************************************************************************)
EXTENDS Integers, Sequences, FiniteSets, TLC

\* ------------------------------------------------------------------ bounds
MaxOrders == 2      \* order documents the store generates identifiers for
MaxInFlight == 2    \* requests being handled at the same time
MaxLessonEdits == 1 \* lesson documents written by /lessons requests in a run

\* --------------------------------------------------------- JavaScript values
\* A value of a numeric field as the handler sees it: a number, undefined
\* (the key is missing), a non-numeric string, or NaN.
Undefined == [t |-> "undefined", n |-> 0]
NaN == [t |-> "NaN", n |-> 0]
NonNumeric == [t |-> "string", n |-> 0]
Num(n) == [t |-> "number", n |-> n]

IsNum(v) == v.t = "number"

\* JavaScript truthiness: undefined, 0 and NaN are falsy, a non-empty string
\* and a non-zero number are truthy.
Truthy(v) == v.t = "string" \/ (v.t = "number" /\ v.n # 0)

\* a || b
OrElse(a, b) == IF Truthy(a) THEN a ELSE b

\* a * b: a non-numeric string or undefined operand converts to NaN.
Mul(a, b) == IF IsNum(a) /\ IsNum(b) THEN Num(a.n * b.n) ELSE NaN

\* s + x where both operands are numbers or NaN.
Add(a, b) == IF IsNum(a) /\ IsNum(b) THEN Num(a.n + b.n) ELSE NaN

\* Number(v)
ToNumber(v) == IF IsNum(v) THEN v ELSE NaN

\* ------------------------------------------------------------------ lessons
LessonIds == {"L1", "L2", "L3"}
NoDoc == [none |-> TRUE]

\* The catalogue the store holds when the server starts: two lessons, the
\* documented shape (price, spaces); "L3" names no lesson.
SeedLessons ==
  [l \in LessonIds |->
     CASE l = "L1" -> [price |-> Num(10), spaces |-> Num(2)]
       [] l = "L2" -> [price |-> Num(5), spaces |-> Num(1)]
       [] OTHER -> NoDoc]

\* ------------------------------------------------------------------- orders
OrderIds == 1..MaxOrders
Slots == 1..MaxInFlight

\* The items field of an order body: missing, not an array, or an array.
ItemsMissing == [t |-> "undefined", a |-> <<>>]
ItemsNotArray == [t |-> "string", a |-> <<>>]
ItemsArray(a) == [t |-> "array", a |-> a]

Item(l, q, p) == [lessonId |-> l, quantity |-> q, price |-> p]

\* Item quantities a client can send: missing, not a number, negative, zero,
\* and positive integers.
QuantityInputs == {Undefined, NonNumeric, Num(-1), Num(0), Num(1), Num(2)}
PriceInputs == {Undefined, Num(5), Num(10)}
TotalInputs == {Undefined, Num(0), Num(7)}

\* Carts: one item on lesson L1 with every quantity and every price, one item
\* on the unknown lesson L3, and the two-item cart on L1 and L2.
Carts ==
  {<<Item("L1", q, Num(10))>> : q \in QuantityInputs}
    \cup {<<Item("L1", Num(1), p)>> : p \in PriceInputs}
    \cup {<<Item("L3", Num(1), Num(10))>>}
    \cup {<<Item("L1", Num(1), Num(10)), Item("L2", Num(2), Num(5))>>}

\* Bodies of POST /orders.  A key that is absent has the value Undefined,
\* ItemsMissing or "absent".
OrderBody(i, t, s, c) == [items |-> i, total |-> t, status |-> s, createdAt |-> c]
EmptyBody == OrderBody(ItemsMissing, Undefined, "absent", "absent")

OrderBodies ==
  {EmptyBody}
    \cup {OrderBody(i, Num(7), "absent", "absent") :
            i \in {ItemsMissing, ItemsNotArray, ItemsArray(<<>>)}}
    \cup {OrderBody(ItemsArray(<<>>), Undefined, "absent", "absent")}
    \cup {OrderBody(ItemsArray(c), Undefined, "absent", "absent") : c \in Carts}
    \cup {OrderBody(ItemsArray(<<Item("L1", Num(1), Num(10))>>), t, "absent", "absent") :
            t \in TotalInputs}
    \cup {OrderBody(ItemsArray(<<Item("L1", Num(1), Num(10)), Item("L2", Num(2), Num(5))>>),
                    Num(7), "absent", "absent")}
    \cup {OrderBody(ItemsArray(<<Item("L1", Num(1), Num(10))>>), Undefined,
                    "shipped", "client-date")}

\* Object.keys(ordersPayload).length === 0
NoKeys(b) ==
  /\ b.items = ItemsMissing
  /\ b.total = Undefined
  /\ b.status = "absent"
  /\ b.createdAt = "absent"

\* The items check without its length test: an empty array passes.
NoItemsArray_Mutant(b) == b.items.t # "array"

\* !Array.isArray(ordersPayload.items) || ordersPayload.items.length === 0
NoItemsArray(b) == b.items.t # "array" \/ Len(b.items.a) = 0

\* items.reduce((s, i) => s + (i.price || 0) * (i.quantity || 1), 0)
RECURSIVE ReduceItems(_, _)
ReduceItems(s, a) ==
  IF a = <<>> THEN s
  ELSE ReduceItems(Add(s, Mul(OrElse(Head(a).price, Num(0)),
                              OrElse(Head(a).quantity, Num(1)))),
                   Tail(a))

\* Number(ordersPayload.total || items.reduce(...))
ComputeTotal(b) == ToNumber(OrElse(b.total, ReduceItems(Num(0), b.items.a)))

\* ordersPayload.status || 'pending'
ComputeStatus(b) == IF b.status = "absent" THEN "pending" ELSE b.status

\* The document insertOne stores under the identifier id it generates: the
\* payload with createdAt, status and total overwritten by the handler.
OrderDoc(b, id) ==
  [_id |-> id,
   items |-> b.items.a,
   total |-> ComputeTotal(b),
   status |-> ComputeStatus(b),
   createdAt |-> "server-date",
   updatedAt |-> "absent",
   note |-> "absent"]

\* ------------------------------------------------------------------- state
VARIABLES
  lessons,      \* the lessons collection: [LessonIds -> document or NoDoc]
  orders,       \* the orders collection: [OrderIds -> document or NoDoc]
  inserted,     \* identifiers the orders collection has generated so far
  inflight,     \* per slot, the handler that is between two store calls
  outbox,       \* the response just sent, with its request, or NoExchange
  lessonEdits,  \* lesson documents the /lessons routes have written so far
  ordersPayload \* req.body of the POST /orders requests of this run

vars == <<lessons, orders, inserted, inflight, outbox, lessonEdits, ordersPayload>>

Idle == [pc |-> "idle"]
NoExchange == [route |-> "none"]

Init ==
  /\ lessons = SeedLessons
  /\ orders = [o \in OrderIds |-> NoDoc]
  /\ inserted = 0
  /\ inflight = [s \in Slots |-> Idle]
  /\ outbox = NoExchange
  /\ lessonEdits = 0
  /\ ordersPayload \in OrderBodies

\* The handlers between two store calls fill the lowest slots, in the order
\* they started: a request is taken by the lowest free slot.
Free(s) ==
  /\ outbox = NoExchange
  /\ inflight[s] = Idle
  /\ \A r \in Slots : r < s => inflight[r] # Idle

\* The slots f once the handler in slot s has finished.
Finish(f, s) ==
  [r \in Slots |->
     IF r < s THEN f[r]
     ELSE IF r < MaxInFlight THEN f[r + 1]
     ELSE Idle]

Running(s, route) ==
  /\ outbox = NoExchange
  /\ inflight[s] # Idle
  /\ inflight[s].route = route

\* res.status(code).json(reply)
Respond(route, code, reply) ==
  outbox' = [route |-> route, status |-> code, reply |-> reply]

\* --------------------------------------------------------- POST /orders
\* Validation, server-side metadata, total, and insertOne.  ok = FALSE is a
\* store call that throws, which the handler's catch answers with 500.
PostOrder(s, b, ok) ==
  /\ Free(s)
  /\ b = ordersPayload
  /\ IF NoKeys(b)
       THEN /\ Respond("POST /orders", 400, "Order body required")
            /\ UNCHANGED <<lessons, orders, inserted, inflight, lessonEdits, ordersPayload>>
     ELSE IF NoItemsArray(b)
       THEN /\ Respond("POST /orders", 400, "Order must include items array")
            /\ UNCHANGED <<lessons, orders, inserted, inflight, lessonEdits, ordersPayload>>
     ELSE IF ~ok
       THEN /\ Respond("POST /orders", 500, "Failed to create order")
            /\ UNCHANGED <<lessons, orders, inserted, inflight, lessonEdits, ordersPayload>>
     ELSE /\ inserted < MaxOrders
          /\ inserted' = inserted + 1
          /\ orders' = [orders EXCEPT ![inserted + 1] = OrderDoc(b, inserted + 1)]
          /\ inflight' = [inflight EXCEPT ![s] =
                            [pc |-> "findOne", route |-> "POST /orders",
                             insertedId |-> inserted + 1, concurrent |-> 0]]
          /\ UNCHANGED <<lessons, outbox, lessonEdits, ordersPayload>>

\* findOne({ _id: result.insertedId }) and the 201 response.  concurrent
\* counts, for a handler between its two store calls, the POST /orders
\* requests answered 201 in the meantime; the response carries the count.
PostOrderFindOne(s, ok) ==
  /\ Running(s, "POST /orders")
  /\ IF ok
       THEN /\ outbox' = [route |-> "POST /orders", status |-> 201,
                          reply |-> orders[inflight[s].insertedId],
                          concurrent |-> inflight[s].concurrent]
            /\ inflight' =
                 Finish([r \in Slots |->
                           IF inflight[r] # Idle /\ inflight[r].route = "POST /orders"
                             THEN [inflight[r] EXCEPT !.concurrent = @ + 1]
                             ELSE inflight[r]],
                        s)
       ELSE /\ Respond("POST /orders", 500, "Failed to create order")
            /\ inflight' = Finish(inflight, s)
  /\ UNCHANGED <<lessons, orders, inserted, lessonEdits, ordersPayload>>

\* ------------------------------------------------------ PUT /orders/:id
\* A partial update: the status, a free-text note, and an _id the handler
\* deletes from the update before $set.
OrderPatch(st, n, i) == [status |-> st, note |-> n, _id |-> i]

OrderPatches ==
  {OrderPatch(st, "absent", "absent") : st \in {"cancelled", "fulfilled"}}
    \cup {OrderPatch("absent", "n", "other-id")}

\* { $set: updates } without delete updates._id: the _id of the patch, an
\* identifier of no stored order (0), is set on the document.
SetUpdates_Mutant(doc, updates) ==
  [doc EXCEPT
     !._id = IF updates._id = "absent" THEN @ ELSE 0,
     !.status = IF updates.status = "absent" THEN @ ELSE updates.status,
     !.note = IF updates.note = "absent" THEN @ ELSE updates.note,
     !.updatedAt = "server-date"]

\* { $set: updates } after delete updates._id and updates.updatedAt = new Date()
SetUpdates(doc, updates) ==
  [doc EXCEPT
     !.status = IF updates.status = "absent" THEN @ ELSE updates.status,
     !.note = IF updates.note = "absent" THEN @ ELSE updates.note,
     !.updatedAt = "server-date"]

\* The lessons with one space of lesson l given back.
ReleaseOne(ls, l) ==
  IF ls[l] # NoDoc /\ IsNum(ls[l].spaces)
    THEN [ls EXCEPT ![l] = [@ EXCEPT !.spaces = Num(@.n + 1)]]
    ELSE ls

\* The handler with a release of capacity on every update of an existing
\* order, whatever the patch.
PutOrder_Mutant(s, id, valid, updates, ok, forwarded) ==
  /\ Free(s)
  /\ IF ~valid \/ ~ok
       THEN /\ Respond("PUT /orders", IF forwarded THEN 500 ELSE 0,
                       IF forwarded THEN "An error occurred" ELSE "none")
            /\ UNCHANGED <<lessons, orders, inserted, inflight, lessonEdits, ordersPayload>>
       ELSE /\ orders' = [orders EXCEPT ![id] =
                            IF @ = NoDoc THEN @ ELSE SetUpdates(@, updates)]
            /\ lessons' = IF orders[id] = NoDoc THEN lessons
                          ELSE ReleaseOne(lessons, orders[id].items[1].lessonId)
            /\ inflight' = [inflight EXCEPT ![s] =
                              [pc |-> "findOne", route |-> "PUT /orders",
                               id |-> id, updates |-> updates]]
            /\ UNCHANGED <<inserted, outbox, lessonEdits, ordersPayload>>

\* updateOne({ _id: new ObjectId(id) }, { $set: updates }).  The handler has
\* no try/catch: when new ObjectId(id) or the store call throws, the async
\* handler's promise rejects and the handler sends nothing ("none"); a
\* router that forwards rejections hands it to the global error handler (500).
PutOrder(s, id, valid, updates, ok, forwarded) ==
  /\ Free(s)
  /\ IF ~valid \/ ~ok
       THEN /\ Respond("PUT /orders", IF forwarded THEN 500 ELSE 0,
                       IF forwarded THEN "An error occurred" ELSE "none")
            /\ UNCHANGED <<lessons, orders, inserted, inflight, lessonEdits, ordersPayload>>
       ELSE /\ orders' = [orders EXCEPT ![id] =
                            IF @ = NoDoc THEN @ ELSE SetUpdates(@, updates)]
            /\ inflight' = [inflight EXCEPT ![s] =
                              [pc |-> "findOne", route |-> "PUT /orders",
                               id |-> id, updates |-> updates]]
            /\ UNCHANGED <<lessons, inserted, outbox, lessonEdits, ordersPayload>>

\* findOne({ _id: new ObjectId(id) }) and res.json(updated)
PutOrderFindOne(s, ok, forwarded) ==
  /\ Running(s, "PUT /orders")
  /\ IF ok
       THEN Respond("PUT /orders", 200,
                    orders[inflight[s].id])
       ELSE Respond("PUT /orders", IF forwarded THEN 500 ELSE 0,
                    IF forwarded THEN "An error occurred" ELSE "none")
  /\ inflight' = Finish(inflight, s)
  /\ UNCHANGED <<lessons, orders, inserted, lessonEdits, ordersPayload>>

\* --------------------------------------------------- DELETE /orders/:id
\* The handler without its deletedCount test: it answers 200 also when
\* deleteOne removed nothing.
DeleteOrder_Mutant(s, id, valid, ok) ==
  /\ Free(s)
  /\ UNCHANGED <<lessons, inserted, inflight, lessonEdits, ordersPayload>>
  /\ IF ~valid
       THEN /\ Respond("DELETE /orders", 400, "Invalid id")
            /\ UNCHANGED orders
     ELSE IF ~ok
       THEN /\ Respond("DELETE /orders", 500,
                       "Failed to delete order")
            /\ UNCHANGED orders
     ELSE /\ Respond("DELETE /orders", 200, "Order deleted")
          /\ orders' = [orders EXCEPT ![id] = NoDoc]

\* ObjectId.isValid(id), deleteOne, deletedCount
DeleteOrder(s, id, valid, ok) ==
  /\ Free(s)
  /\ UNCHANGED <<lessons, inserted, inflight, lessonEdits, ordersPayload>>
  /\ IF ~valid
       THEN /\ Respond("DELETE /orders", 400, "Invalid id")
            /\ UNCHANGED orders
     ELSE IF ~ok
       THEN /\ Respond("DELETE /orders", 500,
                       "Failed to delete order")
            /\ UNCHANGED orders
     ELSE IF orders[id] = NoDoc
       THEN /\ Respond("DELETE /orders", 404,
                       "Order not found")
            /\ UNCHANGED orders
     ELSE /\ Respond("DELETE /orders", 200, "Order deleted")
          /\ orders' = [orders EXCEPT ![id] = NoDoc]

\* -------------------------------------------------------- POST /lessons
LessonBody(su, p, d, sp) == [subject |-> su, price |-> p, description |-> d, spaces |-> sp]
EmptyLessonBody == LessonBody(FALSE, Undefined, FALSE, Undefined)

\* Bodies of POST /lessons: subject and description present or not, a price,
\* and spaces, which the handler does not look at.
LessonBodies ==
  {EmptyLessonBody, LessonBody(FALSE, Num(7), TRUE, Num(3)),
   LessonBody(TRUE, Num(7), TRUE, Num(-1))}
    \cup {LessonBody(TRUE, p, TRUE, Num(3)) : p \in {Num(0), NonNumeric, Num(-1)}}

\* requiredFields.filter((field) => !req.body[field]).length > 0
MissingFields(b) == ~b.subject \/ ~Truthy(b.price) \/ ~b.description

\* The identifier insertOne generates: one that names no lesson yet.
FreshLessonId == CHOOSE l \in LessonIds : lessons[l] = NoDoc

PostLesson(b, ok) ==
  /\ outbox = NoExchange
  /\ UNCHANGED <<orders, inserted, inflight, ordersPayload>>
  /\ IF b = EmptyLessonBody
       THEN /\ Respond("POST /lessons", 400, "Request body is required")
            /\ UNCHANGED <<lessons, lessonEdits>>
     ELSE IF MissingFields(b)
       THEN /\ Respond("POST /lessons", 400, "Missing required fields")
            /\ UNCHANGED <<lessons, lessonEdits>>
     ELSE IF ~IsNum(b.price) \/ b.price.n < 0
       THEN /\ Respond("POST /lessons", 400, "Price must be a positive number")
            /\ UNCHANGED <<lessons, lessonEdits>>
     ELSE IF ~ok
       THEN /\ Respond("POST /lessons", 500, "An error occurred")
            /\ UNCHANGED <<lessons, lessonEdits>>
     ELSE /\ \E l \in LessonIds : lessons[l] = NoDoc
          /\ lessonEdits < MaxLessonEdits
          /\ lessonEdits' = lessonEdits + 1
          /\ lessons' = [lessons EXCEPT ![FreshLessonId] =
                           [price |-> b.price, spaces |-> b.spaces]]
          /\ Respond("POST /lessons", 201, FreshLessonId)

\* ----------------------------------------------------- PUT /lessons/:id
LessonPatch(p, sp) == [price |-> p, spaces |-> sp]
EmptyLessonPatch == LessonPatch(Undefined, Undefined)

LessonPatches ==
  {EmptyLessonPatch, LessonPatch(Undefined, Num(-1))}

\* { $set: updateData }
SetLesson(doc, updateData) ==
  [price |-> IF updateData.price = Undefined THEN doc.price ELSE updateData.price,
   spaces |-> IF updateData.spaces = Undefined THEN doc.spaces ELSE updateData.spaces]

PutLesson(id, valid, updateData, ok) ==
  /\ outbox = NoExchange
  /\ UNCHANGED <<orders, inserted, inflight, ordersPayload>>
  /\ IF updateData = EmptyLessonPatch
       THEN /\ Respond("PUT /lessons", 400,
                       "Request body is required")
            /\ UNCHANGED <<lessons, lessonEdits>>
     ELSE IF ~valid
       THEN /\ Respond("PUT /lessons", 400,
                       "Invalid ID format")
            /\ UNCHANGED <<lessons, lessonEdits>>
     ELSE IF ~ok
       THEN /\ Respond("PUT /lessons", 500,
                       "An error occurred")
            /\ UNCHANGED <<lessons, lessonEdits>>
     ELSE IF lessons[id] = NoDoc
       THEN /\ Respond("PUT /lessons", 404,
                       "Product not found")
            /\ UNCHANGED <<lessons, lessonEdits>>
     ELSE /\ Respond("PUT /lessons", 200,
                     "success")
          /\ lessonEdits < MaxLessonEdits
          /\ lessonEdits' = lessonEdits + 1
          /\ lessons' = [lessons EXCEPT ![id] = SetLesson(@, updateData)]

\* ----------------------------------------------------------------- clients
\* The client receives the response.
Deliver ==
  /\ outbox # NoExchange
  /\ outbox' = NoExchange
  /\ UNCHANGED <<lessons, orders, inserted, inflight, lessonEdits, ordersPayload>>

PostOrderStep ==
  \/ \E s \in Slots, ok \in BOOLEAN : PostOrder(s, ordersPayload, ok)
  \/ \E s \in Slots, ok \in BOOLEAN : PostOrderFindOne(s, ok)

PutOrderStep ==
  \/ \E s \in Slots, id \in OrderIds, valid \in BOOLEAN, updates \in OrderPatches,
        ok \in BOOLEAN, forwarded \in BOOLEAN :
       PutOrder(s, id, valid, updates, ok, forwarded)
  \/ \E s \in Slots, ok \in BOOLEAN, forwarded \in BOOLEAN :
       PutOrderFindOne(s, ok, forwarded)

DeleteOrderStep ==
  \E s \in Slots, id \in OrderIds, valid \in BOOLEAN, ok \in BOOLEAN :
    DeleteOrder(s, id, valid, ok)

LessonStep ==
  \/ \E b \in LessonBodies, ok \in BOOLEAN : PostLesson(b, ok)
  \/ \E id \in LessonIds, valid \in BOOLEAN, updateData \in LessonPatches,
        ok \in BOOLEAN :
       PutLesson(id, valid, updateData, ok)

\* Order requests only.
NextOrders == PostOrderStep \/ PutOrderStep \/ DeleteOrderStep \/ Deliver

Next == NextOrders \/ LessonStep

Spec == Init /\ [][Next]_vars

SpecOrders == Init /\ [][NextOrders]_vars

\* ================================================================= claims
\* Sum of the numeric quantities the items of a ask of lesson l.
RECURSIVE QuantityOn(_, _)
QuantityOn(a, l) ==
  IF a = <<>> THEN 0
  ELSE (IF Head(a).lessonId = l /\ IsNum(Head(a).quantity)
          THEN Head(a).quantity.n ELSE 0)
       + QuantityOn(Tail(a), l)

ItemsOf(b) == {b.items.a[k] : k \in 1..Len(b.items.a)}
DocItems(d) == {d.items[k] : k \in 1..Len(d.items)}
Stored == {o \in OrderIds : orders[o] # NoDoc}
Created == outbox.route = "POST /orders" /\ outbox.status = 201

\* The step is the first step of a POST /orders handler: validation and, for
\* a valid body, insertOne.
PostOrderHandled == \E s \in Slots, ok \in BOOLEAN : PostOrder(s, ordersPayload, ok)

\* C1: every lesson record in the store has spaces >= 0, after any sequence
\* of order requests and lesson create/update requests.
C1_SpacesNonNegative ==
  \A l \in LessonIds :
    lessons[l] # NoDoc /\ IsNum(lessons[l].spaces) => lessons[l].spaces.n >= 0

\* C2: when a POST /orders is answered 201 and other POST /orders requests
\* were answered 201 while it was being handled, the quantities of these
\* requests (each carries ordersPayload) sum, for every lesson, to at most
\* the spaces the lesson had before them.
C2_ConcurrentOrdersFit ==
  (Created /\ outbox.concurrent >= 1) =>
    \A l \in LessonIds :
      SeedLessons[l] # NoDoc =>
        (outbox.concurrent + 1) * QuantityOn(ordersPayload.items.a, l)
          <= SeedLessons[l].spaces.n

\* C3: a POST /orders with an item whose quantity is greater than the current
\* spaces of its lesson persists no order and is answered with an error.
OverCapacity(b) ==
  /\ b.items.t = "array"
  /\ \E i \in ItemsOf(b) :
       /\ lessons[i.lessonId] # NoDoc
       /\ IsNum(i.quantity) /\ IsNum(lessons[i.lessonId].spaces)
       /\ i.quantity.n > lessons[i.lessonId].spaces.n

C3_RejectsOverCapacity ==
  [][PostOrderHandled /\ OverCapacity(ordersPayload)
       => orders' = orders /\ outbox'.status \in {400, 500}]_vars

\* C4: when the first POST /orders of a run of order requests is answered 201,
\* each lesson an item refers to has its initial spaces less the quantity.
C4_CreatedDecrementsSpaces ==
  (Created /\ inserted = 1 /\ outbox.reply # NoDoc) =>
    \A i \in DocItems(outbox.reply) :
      (lessons[i.lessonId] # NoDoc /\ IsNum(i.quantity)) =>
        lessons[i.lessonId].spaces
          = Num(SeedLessons[i.lessonId].spaces.n
                  - QuantityOn(outbox.reply.items, i.lessonId))

\* Items with a numeric price and a positive integer quantity.
WellFormed(a) ==
  \A k \in 1..Len(a) :
    IsNum(a[k].price) /\ IsNum(a[k].quantity) /\ a[k].quantity.n >= 1

\* Sum over the items of price times quantity.
RECURSIVE PriceTimesQuantity(_)
PriceTimesQuantity(a) ==
  IF a = <<>> THEN 0
  ELSE Head(a).price.n * Head(a).quantity.n + PriceTimesQuantity(Tail(a))

\* C5: the total of a persisted order is the sum over its items of price
\* times quantity, whatever total the client sent.
C5_TotalIsServerComputed ==
  \A o \in Stored :
    WellFormed(orders[o].items) =>
      orders[o].total = Num(PriceTimesQuantity(orders[o].items))

\* Sum over the items of the lesson's stored price times quantity.
RECURSIVE LessonPriceTimesQuantity(_)
LessonPriceTimesQuantity(a) ==
  IF a = <<>> THEN 0
  ELSE lessons[Head(a).lessonId].price.n * Head(a).quantity.n
       + LessonPriceTimesQuantity(Tail(a))

\* C6: an order created from a body without a total has the items the client
\* sent and a total computed from the prices of the lesson records at
\* creation time, not from the price fields of the items.
C6_TotalFromLessonPrices ==
  [][(inserted' # inserted
        /\ ordersPayload.total = Undefined
        /\ WellFormed(ordersPayload.items.a)
        /\ \A i \in ItemsOf(ordersPayload) : lessons[i.lessonId] # NoDoc)
       => /\ orders'[inserted'].items = ordersPayload.items.a
          /\ orders'[inserted'].total
               = Num(LessonPriceTimesQuantity(ordersPayload.items.a))]_vars

\* A body the order workflow must refuse: no keys at all, or items missing,
\* not an array, or an empty array.
NoCart(b) ==
  \/ b = EmptyBody
  \/ b.items \in {ItemsMissing, ItemsNotArray, ItemsArray(<<>>)}

\* C7: a POST /orders with an empty body, or with items missing, not an
\* array or empty, is answered 400 in its first step; no order is persisted
\* and no lesson changes.
C7_NoCartIsRejected ==
  [][(PostOrderStep /\ NoCart(ordersPayload))
       => /\ outbox'.route = "POST /orders" /\ outbox'.status = 400
          /\ UNCHANGED <<orders, inserted, lessons, inflight>>]_vars

\* C7 witness: the body { items: [] } has been answered 400.
C7_Witness ==
  /\ ordersPayload.items = ItemsArray(<<>>)
  /\ outbox.route = "POST /orders" /\ outbox.status = 400
  /\ outbox.reply = "Order must include items array"
  /\ Stored = {}

\* C8: no order is stored with an item whose quantity is missing, not an
\* integer, zero or negative.
C8_StoredQuantitiesPositive ==
  \A o \in Stored :
    \A i \in DocItems(orders[o]) : IsNum(i.quantity) /\ i.quantity.n >= 1

\* C9: a POST /orders with an item whose lessonId matches no lesson record
\* persists no order.
C9_UnknownLessonIsRejected ==
  [][(PostOrderHandled
        /\ ordersPayload.items.t = "array"
        /\ \E i \in ItemsOf(ordersPayload) : lessons[i.lessonId] = NoDoc)
       => orders' = orders /\ outbox'.status \in {400, 404, 500}]_vars

\* Quantity the stored orders hold of lesson l.
RECURSIVE HeldBy(_, _)
HeldBy(os, l) ==
  IF os = {} THEN 0
  ELSE LET o == CHOOSE x \in os : TRUE
       IN QuantityOn(orders[o].items, l) + HeldBy(os \ {o}, l)

\* C10: an order record exists only if capacity was reserved for each of its
\* items: what the stored orders hold of a lesson has been taken from its
\* spaces.
C10_StoredOrdersHoldReservedCapacity ==
  \A l \in LessonIds :
    (lessons[l] # NoDoc /\ IsNum(lessons[l].spaces)) =>
      HeldBy(Stored, l) <= SeedLessons[l].spaces.n - lessons[l].spaces.n

\* C11: the record insertOne stores for a POST /orders has status pending, the
\* server's creation timestamp and the identifier the store generated,
\* whatever status or createdAt the body carried.
C11_CreatedPendingWithServerMetadata ==
  [][inserted' # inserted
       => /\ orders'[inserted'].status = "pending"
          /\ orders'[inserted'].createdAt = "server-date"
          /\ orders'[inserted']._id = inserted']_vars

\* The step is a PUT /orders/:id updateOne that turns the pending order id
\* into a cancelled one.
Cancels(id) ==
  /\ PutOrderStep
  /\ orders[id] # NoDoc /\ orders[id].status = "pending"
  /\ orders'[id] # NoDoc /\ orders'[id].status = "cancelled"

\* The spaces of lesson l in ls with quantity n added back.
SpacesPlus(ls, l, n) == Num(ls[l].spaces.n + n)

\* C12: a PUT /orders/:id that changes a pending order to cancelled adds to
\* the spaces of each lesson of the order the quantity the order held of it.
C12_CancelReleasesSpaces ==
  [][\A id \in OrderIds :
       Cancels(id) =>
         \A l \in LessonIds :
           (lessons[l] # NoDoc /\ IsNum(lessons[l].spaces)) =>
             /\ lessons'[l] # NoDoc
             /\ lessons'[l].spaces
                  = SpacesPlus(lessons, l, QuantityOn(orders[id].items, l))]_vars

\* The response o is a response with status code.
Answered(o, code) == o # NoExchange /\ o.status = code

\* The step is the updateOne of a PUT /orders/:id {status: cancelled} on the
\* order id, which is already cancelled.
CancelsAgain(id) ==
  /\ orders[id] # NoDoc /\ orders[id].status = "cancelled"
  /\ \E s \in Slots, forwarded \in BOOLEAN :
       PutOrder(s, id, TRUE, OrderPatch("cancelled", "absent", "absent"), TRUE, forwarded)

\* C13: capacity is released at most once per order: a cancellation of an
\* order that is already cancelled is refused with 404 and changes neither
\* the order nor any lesson's spaces, and deleting a cancelled order leaves
\* every lesson's spaces as they are.
C13_SecondCancelIsNotFound ==
  [][\A id \in OrderIds :
       /\ CancelsAgain(id) =>
            /\ Answered(outbox', 404)
            /\ UNCHANGED <<orders, lessons>>
       /\ (DeleteOrderStep /\ orders[id] # NoDoc /\ orders[id].status = "cancelled"
             /\ orders'[id] = NoDoc) => UNCHANGED lessons]_vars

\* The step is a DELETE /orders/:id whose deleteOne removes the order id.
Deletes(id) == DeleteOrderStep /\ orders[id] # NoDoc /\ orders'[id] = NoDoc

Terminal == {"cancelled", "fulfilled"}

\* An order that is neither cancelled nor fulfilled still holds its capacity.
Active(d) == d.status \notin Terminal

\* C14: a DELETE /orders/:id that removes an active order adds each item's
\* quantity back to the spaces of its lesson; one that removes a cancelled or
\* fulfilled order leaves every lesson's spaces unchanged.
C14_DeleteReleasesActiveOrder ==
  [][\A id \in OrderIds :
       Deletes(id) =>
         \A l \in LessonIds :
           (lessons[l] # NoDoc /\ IsNum(lessons[l].spaces)) =>
             /\ lessons'[l] # NoDoc
             /\ lessons'[l].spaces
                  = SpacesPlus(lessons, l,
                               IF Active(orders[id])
                                 THEN QuantityOn(orders[id].items, l) ELSE 0)]_vars

\* C15: a DELETE /orders/:id with a well-formed id, when the store call
\* succeeds, is answered 404 and changes neither orders nor lessons if the id
\* matches no order, and is answered 200 and removes the order if it matches
\* one; an order that was deleted stays deleted, so that deleting it a second
\* time is answered 404.
C15_DeleteOfAbsentIsNotFound ==
  [][\A id \in OrderIds :
       /\ (\E s \in Slots : DeleteOrder(s, id, TRUE, TRUE)) =>
            IF orders[id] = NoDoc
              THEN Answered(outbox', 404) /\ UNCHANGED <<orders, lessons>>
              ELSE Answered(outbox', 200) /\ orders'[id] = NoDoc
       /\ (id <= inserted /\ orders[id] = NoDoc) => orders'[id] = NoDoc]_vars

\* C15 witness: every order the store created has been deleted, and one more
\* DELETE /orders/:id has been answered 404.
C15_Witness ==
  /\ inserted = MaxOrders
  /\ Stored = {}
  /\ outbox.route = "DELETE /orders"
  /\ Answered(outbox, 404)

\* C16: cancelled and fulfilled are terminal: once an order's status is
\* cancelled or fulfilled no request changes it again, and a status that
\* changes becomes cancelled or fulfilled.
C16_StatusFollowsStateMachine ==
  [][\A id \in OrderIds :
       (orders[id] # NoDoc /\ orders'[id] # NoDoc
          /\ orders'[id].status # orders[id].status)
         => orders[id].status \notin Terminal /\ orders'[id].status \in Terminal]_vars

\* A patch that does not ask for a cancellation: it sets status fulfilled or
\* fields other than status.
NotCancelling(updates) == updates.status # "cancelled"

\* The step starts a PUT /orders/:id handler in slot s: its updateOne is done.
PutStarted(s) ==
  /\ inflight[s] = Idle
  /\ inflight'[s] # Idle
  /\ inflight'[s].route = "PUT /orders"

\* The step ends a PUT /orders/:id handler.
PutEnded == outbox = NoExchange /\ outbox' # NoExchange /\ outbox'.route = "PUT /orders"

\* C17: no step of a PUT /orders/:id whose patch sets status fulfilled, or
\* sets fields other than status, changes a lesson: neither its updateOne,
\* nor its findOne and response, nor its end on an exception.
C17_OtherUpdatesKeepSpaces ==
  [][(\/ \E s \in Slots : PutStarted(s) /\ NotCancelling(inflight'[s].updates)
      \/ PutEnded /\ inflight' = inflight
      \/ \E s \in Slots :
           /\ PutEnded
           /\ inflight[s] # Idle /\ inflight[s].route = "PUT /orders"
           /\ NotCancelling(inflight[s].updates)
           /\ inflight' = Finish(inflight, s))
       => UNCHANGED lessons]_vars

\* C17 witness: a PUT /orders/:id {status: fulfilled} has been answered 200
\* with the fulfilled order, and the lessons are those of the catalogue.
C17_Witness ==
  /\ outbox.route = "PUT /orders"
  /\ Answered(outbox, 200)
  /\ outbox.reply # NoDoc
  /\ outbox.reply.status = "fulfilled"
  /\ outbox.reply.updatedAt = "server-date"
  /\ \E l \in LessonIds : QuantityOn(outbox.reply.items, l) > 0
  /\ lessons = SeedLessons

\* C18: every handler that ends has sent a response, a generic 500 when it
\* ended on an exception: no exchange ends with nothing sent (status 0).
C18_EveryRequestAnswered ==
  outbox # NoExchange => outbox.status \in {200, 201, 400, 404, 500}

\* C19: a PUT /orders/:id answered 200 carries the order with the requested
\* id, the values of the patch and an updatedAt stamp.
C19_PutReturnsUpdatedOrder ==
  [][\A s \in Slots :
       (\E forwarded \in BOOLEAN : PutOrderFindOne(s, TRUE, forwarded)) =>
         /\ outbox'.reply # NoDoc
         /\ outbox'.reply._id = inflight[s].id
         /\ outbox'.reply.updatedAt = "server-date"
         /\ inflight[s].updates.status # "absent"
              => outbox'.reply.status = inflight[s].updates.status
         /\ inflight[s].updates.note # "absent"
              => outbox'.reply.note = inflight[s].updates.note]_vars

\* The stored orders that are not cancelled.
NotCancelled == {o \in Stored : orders[o].status # "cancelled"}

\* C20: capacity conservation under order requests: for each lesson, its
\* spaces plus the quantities the stored non-cancelled orders hold of it
\* equal its initial spaces.
C20_CapacityConservation ==
  \A l \in LessonIds :
    lessons[l] # NoDoc =>
      lessons[l].spaces.n + HeldBy(NotCancelled, l) = SeedLessons[l].spaces.n

\* Every order other than id is as it was.
OthersUnchanged(id) == \A o \in OrderIds : o # id => orders'[o] = orders[o]

\* C21: PUT /orders/:id and DELETE /orders/:id touch at most the order whose
\* identifier is :id.  The updateOne of a PUT leaves every other order as it
\* was, keeps the _id of the order it updates, also when the patch holds an
\* _id, and creates no order when :id matches none; the end of a PUT changes
\* no order; a DELETE leaves every other order as it was.
C21_OnlyTargetOrderTouched ==
  [][/\ \A s \in Slots :
          PutStarted(s) =>
            /\ OthersUnchanged(inflight'[s].id)
            /\ orders[inflight'[s].id] = NoDoc => orders'[inflight'[s].id] = NoDoc
            /\ orders[inflight'[s].id] # NoDoc =>
                 /\ orders'[inflight'[s].id] # NoDoc
                 /\ orders'[inflight'[s].id]._id = inflight'[s].id
     /\ PutEnded => UNCHANGED orders
     /\ \A id \in OrderIds :
          (\E s \in Slots, valid \in BOOLEAN, ok \in BOOLEAN : DeleteOrder(s, id, valid, ok))
            => OthersUnchanged(id)]_vars

\* C21 witness: with two orders stored, a PUT /orders/1 whose patch holds an
\* _id and a note has been answered 200 with order 1 carrying the note and
\* its own _id, and order 2 has never been updated.
C21_Witness ==
  /\ Stored = {1, 2}
  /\ outbox.route = "PUT /orders"
  /\ Answered(outbox, 200)
  /\ outbox.reply # NoDoc
  /\ outbox.reply._id = 1
  /\ outbox.reply.note = "n"
  /\ orders[1] = outbox.reply
  /\ orders[2].updatedAt = "absent" /\ orders[2].note = "absent"
====
